---- MODULE Spec2Model ----
(***************************************************************************)
(* aoi.locale: the $locale function of an aoi.js bot.                      *)
(*                                                                         *)
(* Strings are sequences of one-character strings, so that trim, split,   *)
(* includes and the regular expressions of the source are computed and    *)
(* not assumed.  A JavaScript object (a catalog tree, the params object)   *)
(* is a sequence of <<key, value>> pairs in property order; the Map of     *)
(* loaded locales is a sequence of <<code, data>> pairs in insertion       *)
(* order.                                                                  *)
(***************************************************************************)
EXTENDS Naturals, Sequences, FiniteSets

VARIABLES
    locales,     \* LocaleLoader.locales: the Map code -> catalog tree
    cfg,         \* LanguageDetector options, fixed by init()
    pc,          \* where the (single) $locale call stands
    key,         \* splits[0] of the call in flight, None when absent
    args,        \* splits[1..] of the call in flight
    ctx,         \* d: the ids of the caller
    parsed,      \* { locale, params, forceLocale } of parseArguments
    userLang,    \* what the user-source lookup returned, NotAsked before
    guildLang,   \* what the guild-source lookup returned, NotAsked before
    detected,    \* value returned by detectUserLanguage
    locale,      \* the language handed to getText
    result,      \* data.result, or the error signalled to the caller
    trace,       \* observation: the collaborators the call has invoked, in order
    replay,      \* observation: the previous, identical call, for comparison
    call         \* a direct call of parseArguments or interpolate: its arguments

vars == <<locales, cfg, pc, key, args, ctx, parsed, userLang, guildLang,
          detected, locale, result, trace, replay, call>>

--------------------------------------------------------------------------
(* Values outside the strings: null/undefined, a lookup not made, an error *)
(* Each is a one-element sequence that no string can equal, so that it   *)
(* compares with the strings.                                             *)
None == <<"<null>">>
NotAsked == <<"<not asked>">>
Error == <<"<error>">>
Threw == <<"<threw>">>

--------------------------------------------------------------------------
(* Characters *)
LowerSeq == <<"a","b","c","d","e","f","g","h","i","j","k","l","m",
              "n","o","p","q","r","s","t","u","v","w","x","y","z">>
UpperSeq == <<"A","B","C","D","E","F","G","H","I","J","K","L","M",
              "N","O","P","Q","R","S","T","U","V","W","X","Y","Z">>
DigitSeq == <<"0","1","2","3","4","5","6","7","8","9">>

Range(s) == { s[i] : i \in 1..Len(s) }
LowerLetters == Range(LowerSeq)
UpperLetters == Range(UpperSeq)
Digits == Range(DigitSeq)
WordChars == LowerLetters \cup UpperLetters \cup Digits \cup {"_"}
WhiteSpace == {" ", "\t", "\n"}

IsString(v) == v \notin {None, NotAsked, Error, Threw}

\* JavaScript truthiness of a string-or-null value
Truthy(v) == IsString(v) /\ v # <<>>

LowerChar(c) ==
    IF c \in UpperLetters
    THEN LowerSeq[CHOOSE i \in 1..Len(UpperSeq) : UpperSeq[i] = c]
    ELSE c

ToLowerCase(s) == [i \in 1..Len(s) |-> LowerChar(s[i])]

RECURSIVE TrimStart(_)
TrimStart(s) ==
    IF s # <<>> /\ Head(s) \in WhiteSpace THEN TrimStart(Tail(s)) ELSE s

RECURSIVE TrimEnd(_)
TrimEnd(s) ==
    IF s # <<>> /\ s[Len(s)] \in WhiteSpace
    THEN TrimEnd(SubSeq(s, 1, Len(s) - 1))
    ELSE s

Trim(s) == TrimEnd(TrimStart(s))

Includes(s, c) == \E i \in 1..Len(s) : s[i] = c

\* index of the first c in s, 0 when there is none
IndexOf(s, c) ==
    IF Includes(s, c) THEN CHOOSE i \in 1..Len(s) :
                               s[i] = c /\ \A j \in 1..(i - 1) : s[j] # c
    ELSE 0

\* s.split(c): all the pieces, at least one
RECURSIVE Split(_, _)
Split(s, c) ==
    LET i == IndexOf(s, c) IN
    IF i = 0 THEN <<s>>
    ELSE <<SubSeq(s, 1, i - 1)>> \o Split(SubSeq(s, i + 1, Len(s)), c)

\* s.split(c, limit): the first `limit` pieces, the rest is dropped
SplitLimit(s, c, limit) ==
    LET all == Split(s, c) IN
    IF Len(all) > limit THEN SubSeq(all, 1, limit) ELSE all

\* s.replace(c, ''): the first occurrence only
RemoveFirst(s, c) ==
    LET i == IndexOf(s, c) IN
    IF i = 0 THEN s ELSE SubSeq(s, 1, i - 1) \o SubSeq(s, i + 1, Len(s))

\* /^[a-z]{2,3}$/i
IsLanguageCode(s) ==
    /\ Len(s) \in {2, 3}
    /\ \A i \in 1..Len(s) : s[i] \in LowerLetters \cup UpperLetters

\* the decimal string of a natural number
RECURSIVE NatToString(_)
NatToString(n) ==
    IF n < 10 THEN <<DigitSeq[n + 1]>>
    ELSE NatToString(n \div 10) \o <<DigitSeq[(n % 10) + 1]>>

DigitValue(c) == (CHOOSE i \in 1..Len(DigitSeq) : DigitSeq[i] = c) - 1

RECURSIVE StringToNat(_)
StringToNat(s) ==
    IF s = <<>> THEN 0
    ELSE 10 * StringToNat(SubSeq(s, 1, Len(s) - 1)) + DigitValue(s[Len(s)])

\* a property name that JavaScript orders as an integer index
IsIndexKey(s) ==
    /\ s # <<>>
    /\ \A i \in 1..Len(s) : s[i] \in Digits
    /\ (Len(s) > 1 => s[1] # "0")

--------------------------------------------------------------------------
(* JavaScript objects and Maps as ordered sequences of pairs *)

HasKey(obj, k) == \E i \in 1..Len(obj) : obj[i][1] = k

KeyIndex(obj, k) == CHOOSE i \in 1..Len(obj) : obj[i][1] = k

Get(obj, k) == obj[KeyIndex(obj, k)][2]

Keys(obj) == [i \in 1..Len(obj) |-> obj[i][1]]

\* where a new property k goes: integer keys first, ascending, then the
\* string keys in the order they were created
InsertAt(obj, k) ==
    IF IsIndexKey(k)
    THEN 1 + Cardinality({ i \in 1..Len(obj) :
                 IsIndexKey(obj[i][1]) /\ StringToNat(obj[i][1]) < StringToNat(k) })
    ELSE Len(obj) + 1

\* obj[k] = v
ObjSet(obj, k, v) ==
    IF HasKey(obj, k)
    THEN [obj EXCEPT ![KeyIndex(obj, k)] = <<k, v>>]
    ELSE LET p == InsertAt(obj, k) IN
         SubSeq(obj, 1, p - 1) \o <<<<k, v>>>> \o SubSeq(obj, p, Len(obj))

\* a set that leaves the value of an existing key as it was
MapSetKeep(m, k, v) ==
    IF HasKey(m, k) THEN m ELSE Append(m, <<k, v>>)

\* a set that moves an existing key to the end
MapSetMoveLast(m, k, v) ==
    Append(SelectSeq(m, LAMBDA e : e[1] # k), <<k, v>>)

\* Map.prototype.set: a new key is appended, an existing key keeps its place
MapSet(m, k, v) ==
    IF HasKey(m, k)
    THEN [m EXCEPT ![KeyIndex(m, k)] = <<k, v>>]
    ELSE Append(m, <<k, v>>)

--------------------------------------------------------------------------
(* Catalog trees: a node is a string leaf, a nested object, or another     *)
(* JSON value (a number, true, null)                                       *)
Str(s) == [kind |-> "string", val |-> s, fields |-> <<>>]
Obj(f) == [kind |-> "object", val |-> <<>>, fields |-> f]
Other == [kind |-> "other", val |-> <<>>, fields |-> <<>>]
\* the content of a file that JSON.parse rejects
Malformed == [kind |-> "malformed", val |-> <<>>, fields |-> <<>>]

\* JavaScript truthiness of a catalog value
TruthyNode(n) == n.kind = "object" \/ (n.kind = "string" /\ n.val # <<>>)

--------------------------------------------------------------------------
(* LocaleLoader *)

\* locales.has(locale)
HasLocale(store, code) == HasKey(store, code)

\* Array.from(locales.keys())
GetAvailableLocales(store) == Keys(store)

\* the code that was inserted last
GetLastAvailableLocale(store) ==
    LET codes == GetAvailableLocales(store) IN
    IF Len(codes) > 0 THEN codes[Len(codes)] ELSE None

GetFirstAvailableLocale(store) ==
    LET codes == GetAvailableLocales(store) IN
    IF Len(codes) > 0 THEN codes[1] ELSE None

\* a walk that steps over a segment it cannot follow
RECURSIVE WalkSkipsMissing(_, _)
WalkSkipsMissing(current, keys) ==
    IF keys = <<>>
    THEN IF current.kind = "string" THEN current.val ELSE None
    ELSE IF current.kind = "object" /\ HasKey(current.fields, Head(keys))
         THEN WalkSkipsMissing(Get(current.fields, Head(keys)), Tail(keys))
         ELSE WalkSkipsMissing(current, Tail(keys))

\* the loop of getFromLocale over the segments of the key
RECURSIVE Walk(_, _)
Walk(current, keys) ==
    IF keys = <<>>
    THEN IF current.kind = "string" THEN current.val ELSE None
    ELSE IF current.kind = "object" /\ HasKey(current.fields, Head(keys))
         THEN Walk(Get(current.fields, Head(keys)), Tail(keys))
         ELSE None

GetFromLocale(store, k, code) ==
    IF ~HasKey(store, code) THEN None
    ELSE LET localeData == Get(store, code) IN
         IF ~TruthyNode(localeData) THEN None
         ELSE Walk(localeData, Split(k, "."))

\* an addLocale that copies the new fields into the tree already stored
AddLocaleMerges(store, code, data) ==
    IF HasKey(store, code) /\ Get(store, code).kind = "object"
                           /\ data.kind = "object"
    THEN MapSet(store, code, Obj(Get(store, code).fields \o data.fields))
    ELSE MapSet(store, code, data)

\* locales.set(locale, data)
AddLocaleStore(store, code, data) == MapSet(store, code, data)

--------------------------------------------------------------------------
(* TextInterpolator.interpolate *)

\* how many characters of class cls follow each other in text from i on
RECURSIVE RunLength(_, _, _)
RunLength(text, i, cls) ==
    IF i <= Len(text) /\ text[i] \in cls
    THEN 1 + RunLength(text, i + 1, cls)
    ELSE 0

\* text cut by the global regular expression /\{(cls+)\}/g into the matches
\* (with their captured name) and the single characters between them
RECURSIVE Scan(_, _, _)
Scan(text, i, cls) ==
    IF i > Len(text) THEN <<>>
    ELSE LET n == IF text[i] = "{" THEN RunLength(text, i + 1, cls) ELSE 0
             isMatch == n >= 1 /\ i + n + 1 <= Len(text) /\ text[i + n + 1] = "}"
         IN IF isMatch
            THEN <<[token |-> TRUE,
                    name |-> SubSeq(text, i + 1, i + n),
                    match |-> SubSeq(text, i, i + n + 1)]>>
                 \o Scan(text, i + n + 2, cls)
            ELSE <<[token |-> FALSE, name |-> <<>>, match |-> <<text[i]>>]>>
                 \o Scan(text, i + 1, cls)

RECURSIVE Concat(_)
Concat(pieces) ==
    IF pieces = <<>> THEN <<>> ELSE Head(pieces) \o Concat(Tail(pieces))

\* the replacement callback of interpolateNamedParams
NamedReplacement(params, name, match) ==
    LET lowerName == ToLowerCase(name)
        hits == { i \in 1..Len(params) : ToLowerCase(params[i][1]) = lowerName }
    IN IF HasKey(params, lowerName) THEN Get(params, lowerName)
       ELSE IF hits # {}
            THEN params[CHOOSE i \in hits : \A j \in hits : i <= j][2]
            ELSE match

HasOwnPropertyName ==
    <<"h","a","s","O","w","n","P","r","o","p","e","r","t","y">>

\* params.hasOwnProperty is not a function when params has a property of
\* that name: the callback throws at the first token
NamedThrows(text, params) ==
    /\ HasKey(params, HasOwnPropertyName)
    /\ \E i \in 1..Len(Scan(text, 1, WordChars)) : Scan(text, 1, WordChars)[i].token

InterpolateNamedParams(text, params) ==
    LET parts == Scan(text, 1, WordChars) IN
    IF NamedThrows(text, params) THEN Threw
    ELSE Concat([i \in 1..Len(parts) |->
              IF parts[i].token
              THEN NamedReplacement(params, parts[i].name, parts[i].match)
              ELSE parts[i].match])

\* namedMappings
NamedMappings ==
    << <<<<"u","s","e","r">>, 0>>,
       <<<<"u","s","e","r","n","a","m","e">>, 0>>,
       <<<<"n","a","m","e">>, 0>>,
       <<<<"s","e","r","v","e","r">>, 1>>,
       <<<<"s","e","r","v","e","r","n","a","m","e">>, 1>>,
       <<<<"g","u","i","l","d">>, 1>>,
       <<<<"c","h","a","n","n","e","l">>, 2>>,
       <<<<"l","e","v","e","l">>, 3>>,
       <<<<"v","a","l","u","e">>, 4>>
    >>

\* params[i] !== undefined ? params[i] : match
ElementOr(params, i, match) ==
    IF i + 1 <= Len(params) THEN params[i + 1] ELSE match

\* the callback of the first replace: /\{(\d+)\}/g
IndexReplacement(params, index, match) ==
    ElementOr(params, StringToNat(index), match)

\* the callback of the second replace: /\{(\w+)\}/g
AliasReplacement(params, name, match) ==
    LET lowerName == ToLowerCase(name)
        hits == { i \in 1..Len(params) :
                    /\ Includes(params[i], "=")
                    /\ ToLowerCase(SplitLimit(params[i], "=", 2)[1]) = lowerName }
    IN IF HasKey(NamedMappings, lowerName)
       THEN ElementOr(params, Get(NamedMappings, lowerName), match)
       ELSE IF hits # {}
            THEN SplitLimit(params[CHOOSE i \in hits : \A j \in hits : i <= j],
                            "=", 2)[2]
            ELSE match

\* text.replace(/\{(\d+)\}/g, ...), the first pass
ReplaceIndexTokens(text, params) ==
    LET parts == Scan(text, 1, Digits) IN
    Concat([i \in 1..Len(parts) |->
              IF parts[i].token
              THEN IndexReplacement(params, parts[i].name, parts[i].match)
              ELSE parts[i].match])

\* text.replace(/\{(\w+)\}/g, ...), the second pass
ReplaceAliasTokens(text, params) ==
    LET parts == Scan(text, 1, WordChars) IN
    Concat([i \in 1..Len(parts) |->
              IF parts[i].token
              THEN AliasReplacement(params, parts[i].name, parts[i].match)
              ELSE parts[i].match])

InterpolateArrayParams(text, params) ==
    IF Len(params) = 0 THEN text
    ELSE ReplaceAliasTokens(ReplaceIndexTokens(text, params), params)

\* parseArguments always hands an object, never an array, to interpolate
\* interpolate that takes an object of index keys only for an array
InterpolateByShape(text, params) ==
    IF params # <<>> /\ \A i \in 1..Len(params) : IsIndexKey(params[i][1])
    THEN InterpolateArrayParams(text, [i \in 1..Len(params) |-> params[i][2]])
    ELSE InterpolateNamedParams(text, params)

Interpolate(text, params) == InterpolateNamedParams(text, params)

\* the params argument of interpolate: nothing, an object or an array
NoParams == [kind |-> "none", object |-> <<>>, array |-> <<>>]
Object(o) == [kind |-> "object", object |-> o, array |-> <<>>]
Array(a) == [kind |-> "array", object |-> <<>>, array |-> a]

\* interpolate for any params: nothing, an object or an array
InterpolateValue(text, p) ==
    IF p.kind = "none" THEN text
    ELSE IF p.kind = "object" THEN Interpolate(text, p.object)
    ELSE InterpolateArrayParams(text, p.array)

--------------------------------------------------------------------------
(* TextInterpolator.parseArguments *)

\* accumulators that outlive the call: what the last parse left
ParseStartStale == parsed

\* the accumulators a parse starts from
ParseStart == [locale |-> None, params |-> <<>>, forceLocale |-> FALSE]

\* a classification that tests '|' before ':'
ArgRulePipeFirst(trimmedArg) ==
    IF Includes(trimmedArg, "|") THEN "optional"
    ELSE IF Includes(trimmedArg, ":") THEN "named"
    ELSE IF IsLanguageCode(trimmedArg) THEN "language"
    ELSE "positional"

\* the branch of the if / else if chain that a trimmed argument takes
ArgRule(trimmedArg) ==
    IF Includes(trimmedArg, ":") THEN "named"
    ELSE IF Includes(trimmedArg, "|") THEN "optional"
    ELSE IF IsLanguageCode(trimmedArg) THEN "language"
    ELSE "positional"

\* an index that counts the positional entries only
ParamIndexPositional(params) ==
    Cardinality({ i \in 1..Len(params) : IsIndexKey(params[i][1]) })

\* Object.keys(params).length
ParamIndex(params) == Len(params)

\* one turn of the loop over the arguments
ParseArg(acc, arg) ==
    IF arg = <<>> THEN acc
    ELSE LET trimmedArg == Trim(arg)
             rule == ArgRule(trimmedArg)
         IN
         IF rule = "named"
         THEN LET pieces == SplitLimit(trimmedArg, ":", 2)
                  paramKey == pieces[1]
                  paramValue == pieces[2]
              IN IF paramKey # <<>> /\ paramValue # <<>>
                 THEN [acc EXCEPT !.params =
                           ObjSet(acc.params, Trim(paramKey), Trim(paramValue))]
                 ELSE acc
         ELSE IF rule = "optional"
         THEN LET pieces == SplitLimit(trimmedArg, "|", 2)
                  langParam == Trim(RemoveFirst(pieces[1], "?"))
                  defaultLang == Trim(pieces[2])
              IN [acc EXCEPT !.locale = IF langParam # <<>> THEN langParam
                                        ELSE defaultLang,
                             !.forceLocale = TRUE]
         ELSE IF rule = "language"
         THEN [acc EXCEPT !.locale = trimmedArg, !.forceLocale = TRUE]
         ELSE LET paramIndex == ParamIndex(acc.params) IN
              [acc EXCEPT !.params =
                   ObjSet(acc.params, NatToString(paramIndex), trimmedArg)]

RECURSIVE ParseFrom(_, _)
ParseFrom(acc, list) ==
    IF list = <<>> THEN acc
    ELSE ParseFrom(ParseArg(acc, Head(list)), Tail(list))

ParseArguments(list) == ParseFrom(ParseStart, list)

--------------------------------------------------------------------------
(* AoiLocale.getText *)

\* whether getText makes its second lookup, in the first available locale
GetTextRetries(store, k, code) ==
    /\ ~Truthy(GetFromLocale(store, k, code))
    /\ Truthy(GetFirstAvailableLocale(store))
    /\ GetFirstAvailableLocale(store) # code

\* the text getText ends with before interpolation, None when it has none
GetTextRaw(store, k, code) ==
    LET text == GetFromLocale(store, k, code) IN
    IF Truthy(text) THEN text
    ELSE IF GetTextRetries(store, k, code)
         THEN GetFromLocale(store, k, GetFirstAvailableLocale(store))
         ELSE text

\* getText that interpolates the key it falls back to
GetTextInterpolatesKey(store, k, code, params) ==
    LET text == GetTextRaw(store, k, code) IN
    Interpolate(IF ~Truthy(text) THEN k ELSE text, params)

GetText(store, k, code, params) ==
    LET text == GetTextRaw(store, k, code) IN
    IF ~Truthy(text) THEN k ELSE Interpolate(text, params)

\* the locales getText reads, in order
GetTextLookups(store, k, code) ==
    <<code>> \o (IF GetTextRetries(store, k, code)
                 THEN <<GetFirstAvailableLocale(store)>> ELSE <<>>)

--------------------------------------------------------------------------
(* LanguageDetector.executeLanguageSource *)

StartsWithAt(s, i, pat) ==
    /\ i + Len(pat) - 1 <= Len(s)
    /\ \A j \in 1..Len(pat) : s[i + j - 1] = pat[j]

\* s.includes(pat)
IncludesSub(s, pat) == \E i \in 1..Len(s) : StartsWithAt(s, i, pat)

\* s.replace(/pat/g, rep) for a pattern without special characters
RECURSIVE ReplaceAllSub(_, _, _)
ReplaceAllSub(s, pat, rep) ==
    IF s = <<>> THEN <<>>
    ELSE IF StartsWithAt(s, 1, pat)
         THEN rep \o ReplaceAllSub(SubSeq(s, Len(pat) + 1, Len(s)), pat, rep)
         ELSE <<Head(s)>> \o ReplaceAllSub(Tail(s), pat, rep)

\* value.replace(/\{[^}]*\}/g, '')
RECURSIVE StripBraces(_)
StripBraces(s) ==
    IF s = <<>> THEN <<>>
    ELSE IF Head(s) = "{" /\ Includes(Tail(s), "}")
         THEN StripBraces(SubSeq(s, IndexOf(Tail(s), "}") + 2, Len(s)))
         ELSE <<Head(s)>> \o StripBraces(Tail(s))

\* whether /fn\[([^;]+);([^\]]+)\]/ matches at position i of command
VarQueryAt(command, i, fn) ==
    /\ StartsWithAt(command, i, fn \o <<"[">>)
    /\ LET q == i + Len(fn) + 1
           n1 == RunLength(command, q, Range(command) \ {";"})
           n2 == RunLength(command, q + n1 + 1, Range(command) \ {"]"})
       IN /\ n1 >= 1
          /\ q + n1 <= Len(command) /\ command[q + n1] = ";"
          /\ n2 >= 1
          /\ q + n1 + 1 + n2 <= Len(command) /\ command[q + n1 + 1 + n2] = "]"

\* command.includes('fn[') && command.match(/fn\[([^;]+);([^\]]+)\]/)
MatchesVarQuery(command, fn) ==
    /\ IncludesSub(command, fn \o <<"[">>)
    /\ \E i \in 1..Len(command) : VarQueryAt(command, i, fn)

GetUserVar == <<"g","e","t","U","s","e","r","V","a","r">>
GetServerVar == <<"g","e","t","S","e","r","v","e","r","V","a","r">>
UserIdToken == <<"{","u","s","e","r","I","d","}">>
GuildIdToken == <<"{","g","u","i","l","d","I","d","}">>
ChannelIdToken == <<"{","c","h","a","n","n","e","l","I","d","}">>
LanguageVar == <<"l","a","n","g","u","a","g","e">>
UndefinedText == <<"u","n","d","e","f","i","n","e","d">>
NullText == <<"n","u","l","l">>

\* 'getUserVar[language;{userId}]' and 'getServerVar[language;{guildId}]'
DefaultLanguageSource == GetUserVar \o <<"[">> \o LanguageVar \o <<";">> \o UserIdToken \o <<"]">>
DefaultGuildLanguageSource ==
    GetServerVar \o <<"[">> \o LanguageVar \o <<";">> \o GuildIdToken \o <<"]">>

\* the command executeLanguageSource builds from a source template
Command(source, d) ==
    ReplaceAllSub(ReplaceAllSub(ReplaceAllSub(source, UserIdToken, d.userId),
                                GuildIdToken, d.guildId),
                  ChannelIdToken, d.channelId)

\* what the interpreter returned, as the try block reads it
FromInterpreter(command, out) ==
    LET code == IF out.interp = "echo" THEN command ELSE out.code
        value == Trim(StripBraces(code))
    IN IF code = <<>> THEN None
       ELSE IF /\ value # command /\ value # <<>>
               /\ value # UndefinedText /\ value # NullText
            THEN value
            ELSE None

\* one of the two direct reads of the variable table, with its own try/catch
FromTable(command, fn, out) ==
    IF MatchesVarQuery(command, fn) /\ out.db = "value" /\ Truthy(out.value)
    THEN out.value
    ELSE None

\* the catch (interpreterError) block
FromStorage(command, out) ==
    LET user == FromTable(command, GetUserVar, out) IN
    IF user # None THEN user ELSE FromTable(command, GetServerVar, out)

\* the same without either try/catch: a failing interpreter throws to the caller
ExecuteLanguageSourceUncaught(source, d, out) ==
    IF out.interp \in {"throws", "nonstring"} THEN Threw
    ELSE FromInterpreter(Command(source, d), out)

ExecuteLanguageSource(source, d, out) ==
    IF out.interp \in {"throws", "nonstring"}
    THEN FromStorage(Command(source, d), out)
    ELSE FromInterpreter(Command(source, d), out)

--------------------------------------------------------------------------
(* LanguageDetector.detectUserLanguage *)

NoFunction == <<"<no function>">>

\* a stage's test without the store
ValidUnchecked(store, lang) == Truthy(lang)

\* `lang && locales.hasLocale(lang)`, the test of each stage
Valid(store, lang) == Truthy(lang) /\ HasLocale(store, lang)

\* the stage that follows the user-source stage regardless of its result
AfterUserAlways(store, c, lang) ==
    IF c.fallbackToGuildLanguage THEN "awaitGuild" ELSE "detected"

\* the guild stage entered without the fallback switch
AfterUserIgnoresSwitch(store, c, lang) ==
    IF lang = Threw \/ Valid(store, lang) THEN "detected"
    ELSE IF Truthy(c.guildLanguageSource) THEN "awaitGuild"
    ELSE "detected"

\* where detectUserLanguage goes when the user-source lookup has returned lang
AfterUser(store, c, lang) ==
    IF lang = Threw THEN "detected"
    ELSE IF Valid(store, lang) THEN "detected"
    ELSE IF c.fallbackToGuildLanguage /\ Truthy(c.guildLanguageSource)
         THEN "awaitGuild"
         ELSE "detected"

\* the value detectUserLanguage returns when it ends with the last lookup lang
Returned(store, lang) == IF Valid(store, lang) THEN lang ELSE None

--------------------------------------------------------------------------
(* LocaleLoader.loadLocales.  A character outside ASCII is written as its  *)
(* code point.                                                             *)

En == <<"e","n">>
Tr == <<"t","r">>

BasicEn ==
    Obj(<<
      <<<<"w","e","l","c","o","m","e">>,
        Str(<<"W","e","l","c","o","m","e"," ","t","o"," ","o","u","r"," ","s","e","r","v","e","r","!">>)>>,
      <<<<"g","o","o","d","b","y","e">>,
        Str(<<"G","o","o","d","b","y","e",","," ","s","e","e"," ","y","o","u"," ","l","a","t","e","r","!">>)>>,
      <<<<"h","e","l","l","o">>,
        Str(<<"H","e","l","l","o"," ","{","u","s","e","r","}","!">>)>>,
      <<<<"e","r","r","o","r">>,
        Str(<<"A","n"," ","e","r","r","o","r"," ","o","c","c","u","r","r","e","d","!">>)>>,
      <<<<"s","u","c","c","e","s","s">>,
        Str(<<"O","p","e","r","a","t","i","o","n"," ","c","o","m","p","l","e","t","e","d"," ","s","u","c","c","e","s","s","f","u","l","l","y","!">>)>> >>)

BasicTr ==
    Obj(<<
      <<<<"w","e","l","c","o","m","e">>,
        Str(<<"S","u","n","u","c","u","m","u","z","a"," ","h","o","U+015F"," ","g","e","l","d","i","n","i","z","!">>)>>,
      <<<<"g","o","o","d","b","y","e">>,
        Str(<<"H","o","U+015F","U+00E7","a","k","a","l",","," ","s","o","n","r","a"," ","g","U+00F6","r","U+00FC","U+015F","U+00FC","r","U+00FC","z","!">>)>>,
      <<<<"h","e","l","l","o">>,
        Str(<<"M","e","r","h","a","b","a"," ","{","u","s","e","r","}","!">>)>>,
      <<<<"e","r","r","o","r">>,
        Str(<<"B","i","r"," ","h","a","t","a"," ","o","l","u","U+015F","t","u","!">>)>>,
      <<<<"s","u","c","c","e","s","s">>,
        Str(<<"U+0130","U+015F","l","e","m"," ","b","a","U+015F","a","r","U+0131","y","l","a"," ","t","a","m","a","m","l","a","n","d","U+0131","!">>)>> >>)

\* createBasicExamples: en.json, then tr.json
CreateBasicExamples(store) == MapSet(MapSet(store, En, BasicEn), Tr, BasicTr)

\* the loop over the .json files of a directory: a file that does not parse
\* is skipped
RECURSIVE LoadFiles(_, _)
LoadFiles(store, files) ==
    IF files = <<>> THEN store
    ELSE LET code == Head(files)[1]
             data == Head(files)[2]
         IN LoadFiles(IF data = Malformed THEN store
                      ELSE MapSet(store, code, data),
                      Tail(files))

\* createExampleLocales: the files of the examples directory, or the basic
\* examples when it is missing or empty
CreateExampleLocales(store, examples) ==
    IF examples = <<>> THEN CreateBasicExamples(store)
    ELSE LoadFiles(store, examples)

LoadLocales(store, files, examples) ==
    LET loaded == LoadFiles(store, files) IN
    IF Len(loaded) = 0 THEN CreateExampleLocales(loaded, examples) ELSE loaded

--------------------------------------------------------------------------
(* The inputs of the model *)

MaxArgs == 2

TreeA ==
    Obj(<< <<<<"a">>, Str(<<"H","{","u","}","{","1","}">>)>>,
           <<<<"e">>, Str(<<>>)>>,
           <<<<"n">>, Obj(<< <<<<"b">>, Str(<<"x">>)>> >>)>>,
           <<<<"n",".","b">>, Str(<<"y">>)>> >>)
TreeB ==
    Obj(<< <<<<"a">>, Str(<<"M","{","U","}">>)>> >>)
TreeC ==
    Obj(<< <<<<"e">>, Str(<<"E">>)>>,
           <<<<"n">>, Str(<<"N">>)>> >>)

\* what init() may find: the .json files of the locale directory and of the
\* examples directory
Directories ==
    { [files |-> << <<En, TreeA>>, <<Tr, TreeB>> >>, examples |-> <<>>],
      [files |-> << <<En, Malformed>>, <<Tr, TreeC>> >>, examples |-> <<>>],
      [files |-> <<>>, examples |-> << <<En, Malformed>> >>] }

\* the catalogs addLocale is called with
Additions == { <<En, TreeC>>, <<Tr, TreeA>>, <<Tr, Str(<<"s">>)>> }

CallKeys ==
    { None, <<>>, <<" ">>,
      <<"a">>, <<"e">>, <<"n">>, <<"n",".","b">>, <<"{","u","}">>, <<" ","a">> }

ArgPool == { <<"u",":","B">>, <<"t","r">>, <<"?","|">>, <<"B">> }
ArgLists == UNION { [1..n -> ArgPool] : n \in 0..MaxArgs }

InGuild == [userId |-> <<"7">>, guildId |-> <<"9">>, channelId |-> <<"3">>]
InDirectMessage == [userId |-> <<"7">>, guildId |-> <<>>, channelId |-> <<"3">>]

\* what customLanguageFunction does: absent, throws, or returns a value
Hooks == { NoFunction, Threw, Tr, <<"x","x">> }

OptionsWith(h, f) ==
    [languageSource |-> DefaultLanguageSource,
     guildLanguageSource |-> DefaultGuildLanguageSource,
     customLanguageFunction |-> h,
     fallbackToGuildLanguage |-> f]

\* what the interpreter and the variable tables answer to one lookup
Answer(i, c, d, v) == [interp |-> i, code |-> c, db |-> d, value |-> v]

LookupOutcomes ==
    { Answer("code", Tr, "absent", <<>>),
      Answer("code", <<" ","e","n","{","x","}">>, "absent", <<>>),
      Answer("code", <<"x","x">>, "value", Tr),
      Answer("code", <<>>, "value", Tr),
      Answer("code", NullText, "absent", <<>>),
      Answer("echo", <<>>, "value", En),
      Answer("throws", <<>>, "value", Tr),
      Answer("throws", <<>>, "throws", <<>>),
      Answer("throws", <<>>, "absent", <<>>),
      Answer("throws", <<>>, "empty", <<>>),
      Answer("nonstring", <<>>, "value", En),
      Answer("nonstring", <<>>, "absent", <<>>),
      Answer("code", <<"{","x","}">>, "absent", <<>>) }

FewOutcomes ==
    { Answer("code", Tr, "absent", <<>>),
      Answer("code", <<" ","e","n","{","x","}">>, "absent", <<>>),
      Answer("throws", <<>>, "throws", <<>>) }

\* a catalog with an alias token, and the calls made on it
TreeH ==
    Obj(<< <<<<"h","e","l","l","o">>, Str(<<"H","e","l","l","o"," ","{","u","s","e","r","}","!">>)>>,
           <<<<"e">>, Str(<<>>)>> >>)
AliasDirectory ==
    [files |-> << <<En, TreeH>>, <<Tr, TreeB>> >>, examples |-> <<>>]
AliasKeys == { <<"h","e","l","l","o">>, <<"a">>, <<"e">> }
AliasArgPool == { <<"A","l","i","c","e","1">>, <<"E","N">>, <<"x","x">>, <<"u","s","e","r",":","B","o","b">> }
AliasArgLists == UNION { [1..n -> AliasArgPool] : n \in 0..MaxArgs }

\* the arguments of the direct calls of parseArguments
ParsePool ==
    { <<"u","s","e","r",":","A","l","i","c","e">>,
      <<"e","n">>,
      <<"a",":","b","|","c">>,
      <<"l","e","v","e","l","?","|","e","n">>,
      <<"?","|","e","n">>,
      <<"?","|","a","|","b">>,
      <<"u","r","l",":","h","t","t","p","s",":","/","/","x">>,
      <<"a",":"," ",":","b">>,
      <<" ">>,
      <<>>,
      <<":","x">>,
      <<"a",":">>,
      <<"B">>,
      <<"E","N">>,
      <<"a","b","c","d">>,
      <<" ","t","r"," ">>,
      <<"1",":","q">>,
      <<"U",":","b">> }
ParseLists == UNION { [1..n -> ParsePool] : n \in 0..MaxArgs }

\* the templates and params of the direct calls of interpolate
Templates ==
    { <<"H","e","l","l","o"," ","{","u","s","e","r","}","!">>,
      <<"{","0","}">>,
      <<"{","7","}">>,
      <<"{","U","S","E","R","}","{","x","}">>,
      <<"{","l","e","v","e","l","}","{","1","}">>,
      <<"a","{","b","}"," ","{","-","}">> }
ParamObjects ==
    { <<>>,
      <<<<<<"u","s","e","r">>, <<"B","o","b">>>>>>,
      <<<<<<"U","s","e","r">>, <<"B","o","b">>>>>>,
      <<<<<<"h","a","s","O","w","n","P","r","o","p","e","r","t","y">>, <<"x">>>>>>,
      <<<<<<"u","s","e","r">>, <<"{","x","}">>>>, <<<<"x">>, <<"y">>>>>> }
ParamArrays ==
    { <<>>,
      <<<<"B","o","b">>>>,
      <<<<"{","g","u","i","l","d","}">>, <<"x">>>>,
      <<<<"7","=","x">>>>,
      <<<<"{","c","h","a","n","n","e","l","}">>, <<"b">>, <<"c">>>>,
      <<<<"a">>, <<"b">>, <<"c">>, <<"d">>, <<"e">>>> }
ParamValues ==
    {NoParams} \cup { Object(o) : o \in ParamObjects } \cup { Array(a) : a \in ParamArrays }

--------------------------------------------------------------------------
(* The $locale function: FunctionManager.addLocaleFunction *)

NotParsed == [locale |-> None, params |-> <<>>, forceLocale |-> FALSE]
NoReplay == [on |-> FALSE, clean |-> TRUE, result |-> None,
             userLang |-> NotAsked, guildLang |-> NotAsked]
NoOptions ==
    [languageSource |-> <<>>, guildLanguageSource |-> <<>>,
     customLanguageFunction |-> NoFunction, fallbackToGuildLanguage |-> FALSE]
NoContext == [userId |-> <<>>, guildId |-> <<>>, channelId |-> <<>>]
NoCall == [op |-> "none", list |-> <<>>, text |-> <<>>, params |-> NoParams]

Event(e, lang) == [ev |-> e, lang |-> lang]

\* `!key || key.trim() === ''` without the trim
KeyMissingUntrimmed(k) == k = None \/ k = <<>>

\* `!key || key.trim() === ''`
KeyMissing(k) == k = None \/ Trim(k) = <<>>

\* a selection that forgets the language it was given
SelectFirstAlways(store, lang) == GetFirstAvailableLocale(store)

\* `if (!locale) locale = getFirstAvailableLocale()`
SelectLocale(store, lang) ==
    IF Truthy(lang) THEN lang ELSE GetFirstAvailableLocale(store)

GetEvents(store, k, code) ==
    LET read == GetTextLookups(store, k, code) IN
    [i \in 1..Len(read) |-> Event("get", read[i])]

\* a first stage that goes on to the user source when the hook throws
FirstStageHookCaught(store, c) ==
    LET fn == c.customLanguageFunction IN
    IF fn # NoFunction /\ fn # Threw /\ Valid(store, fn) THEN "detected"
    ELSE IF Truthy(c.languageSource) THEN "awaitUser"
    ELSE IF c.fallbackToGuildLanguage /\ Truthy(c.guildLanguageSource)
         THEN "awaitGuild"
         ELSE "detected"

\* the stage detectUserLanguage stops at before its first await
FirstStage(store, c) ==
    LET fn == c.customLanguageFunction IN
    IF fn # NoFunction /\ fn = Threw THEN "detected"
    ELSE IF fn # NoFunction /\ Valid(store, fn) THEN "detected"
    ELSE IF Truthy(c.languageSource) THEN "awaitUser"
    ELSE IF c.fallbackToGuildLanguage /\ Truthy(c.guildLanguageSource)
         THEN "awaitGuild"
         ELSE "detected"

\* a test that never takes the call past the detection
ForcedNever(p) == FALSE

\* `if (!forceLocale)`: whether the call goes past detectUserLanguage
Forced(p) == p.forceLocale

\* the call from its entry to its first await, or to its end
Begin(k, a, d) ==
    IF KeyMissing(k)
    THEN /\ pc' = "done"
         /\ result' = Error
         /\ trace' = <<>>
         /\ parsed' = NotParsed
         /\ locale' = None
         /\ detected' = None
    ELSE LET p == ParseArguments(a)
             fn == cfg.customLanguageFunction
             stage == FirstStage(locales, cfg)
             hooked == IF fn # NoFunction THEN <<Event("hook", None)>> ELSE <<>>
             lang == SelectLocale(locales, p.locale)
         IN /\ parsed' = p
            /\ IF Forced(p)
               THEN /\ pc' = "done"
                    /\ locale' = lang
                    /\ detected' = None
                    /\ result' = GetText(locales, Trim(k), lang, p.params)
                    /\ trace' = <<Event("parse", None)>>
                                \o GetEvents(locales, Trim(k), lang)
               ELSE /\ pc' = stage
                    /\ locale' = None
                    /\ result' = None
                    /\ detected' = IF stage = "detected" /\ fn # Threw
                                   THEN fn ELSE None
                    /\ trace' = <<Event("parse", None)>> \o hooked
                         \o (IF stage = "awaitUser" THEN <<Event("user", None)>>
                             ELSE IF stage = "awaitGuild"
                                  THEN <<Event("guild", None)>> ELSE <<>>)

Init ==
    /\ locales = <<>>
    /\ cfg = NoOptions
    /\ pc = "new"
    /\ key = None
    /\ args = <<>>
    /\ ctx = NoContext
    /\ parsed = NotParsed
    /\ userLang = NotAsked
    /\ guildLang = NotAsked
    /\ detected = None
    /\ locale = None
    /\ result = None
    /\ trace = <<>>
    /\ replay = NoReplay
    /\ call = NoCall

\* AoiLocale.init: the options are read, the catalogs loaded, $locale added
InitModule(options, files, examples) ==
    /\ pc = "new"
    /\ pc' = "idle"
    /\ cfg' = options
    /\ locales' = LoadLocales(locales, files, examples)
    /\ UNCHANGED <<call, key, args, ctx, parsed, userLang, guildLang, detected,
                   locale, result, trace, replay>>

\* $locale[k;a...] is called
Invoke(k, a, d) ==
    /\ pc = "idle"
    /\ key' = k /\ args' = a /\ ctx' = d
    /\ userLang' = NotAsked /\ guildLang' = NotAsked
    /\ replay' = NoReplay
    /\ Begin(k, a, d)
    /\ UNCHANGED <<call, locales, cfg>>

\* the same call is made again as soon as the first has returned
Reinvoke ==
    /\ pc = "done"
    /\ replay' = [on |-> TRUE, clean |-> replay.clean, result |-> result,
                  userLang |-> userLang, guildLang |-> guildLang]
    /\ userLang' = NotAsked /\ guildLang' = NotAsked
    /\ Begin(key, args, ctx)
    /\ UNCHANGED <<call, locales, cfg, key, args, ctx>>

\* the user-source lookup returns; to a repeated call it answers as before
UserReturns(out) ==
    /\ pc = "awaitUser"
    /\ LET lang == ExecuteLanguageSource(cfg.languageSource, ctx, out)
           stage == AfterUser(locales, cfg, lang)
       IN /\ replay.on => lang = replay.userLang
          /\ userLang' = lang
          /\ pc' = stage
          /\ detected' = IF stage = "detected" THEN Returned(locales, lang)
                         ELSE None
          /\ trace' = IF stage = "awaitGuild"
                      THEN Append(trace, Event("guild", None)) ELSE trace
    /\ UNCHANGED <<call, locales, cfg, key, args, ctx, parsed, guildLang, locale,
                   result, replay>>

\* the guild-source lookup returns; to a repeated call it answers as before
GuildReturns(out) ==
    /\ pc = "awaitGuild"
    /\ LET lang == ExecuteLanguageSource(cfg.guildLanguageSource, ctx, out)
       IN /\ replay.on => lang = replay.guildLang
          /\ guildLang' = lang
          /\ detected' = Returned(locales, lang)
    /\ pc' = "detected"
    /\ UNCHANGED <<call, locales, cfg, key, args, ctx, parsed, userLang, locale,
                   result, trace, replay>>

\* detectUserLanguage has returned: the call goes on to getText and ends
Resume ==
    /\ pc = "detected"
    /\ LET lang == SelectLocale(locales, detected) IN
       /\ locale' = lang
       /\ result' = GetText(locales, Trim(key), lang, parsed.params)
       /\ trace' = trace \o GetEvents(locales, Trim(key), lang)
    /\ pc' = "done"
    /\ UNCHANGED <<call, locales, cfg, key, args, ctx, parsed, userLang, guildLang,
                   detected, replay>>

\* the result has been handed to the caller
Return ==
    /\ pc = "done"
    /\ pc' = "idle"
    /\ key' = None /\ args' = <<>> /\ ctx' = NoContext
    /\ parsed' = NotParsed
    /\ userLang' = NotAsked /\ guildLang' = NotAsked
    /\ detected' = None /\ locale' = None /\ result' = None
    /\ trace' = <<>>
    /\ replay' = NoReplay
    /\ UNCHANGED <<call, locales, cfg>>

\* AoiLocale.addLocale, between two calls or while one awaits
AddLocale(code, data) ==
    /\ pc \in {"idle", "awaitUser", "awaitGuild", "detected"}
    /\ locales' = AddLocaleStore(locales, code, data)
    /\ replay' = IF pc = "idle" THEN replay ELSE [replay EXCEPT !.clean = FALSE]
    /\ UNCHANGED <<call, cfg, pc, key, args, ctx, parsed, userLang, guildLang,
                   detected, locale, result, trace>>

\* calls of every key and argument list, one configuration
Next ==
    \/ \E dir \in Directories :
          InitModule(OptionsWith(NoFunction, TRUE), dir.files, dir.examples)
    \/ \E k \in CallKeys, a \in ArgLists : Invoke(k, a, InGuild)
    \/ Reinvoke
    \/ \E out \in FewOutcomes : UserReturns(out)
    \/ \E out \in FewOutcomes : GuildReturns(out)
    \/ Resume
    \/ Return
    \/ \E add \in Additions : AddLocale(add[1], add[2])

Spec == Init /\ [][Next]_vars

\* every configuration, context and answer of the lookups, few calls
NextDetect ==
    \/ \E h \in Hooks, f \in BOOLEAN, dir \in Directories :
          InitModule(OptionsWith(h, f), dir.files, dir.examples)
    \/ \E a \in {<<>>, <<Tr>>}, d \in {InGuild, InDirectMessage} :
          Invoke(<<"a">>, a, d)
    \/ Reinvoke
    \/ \E out \in LookupOutcomes : UserReturns(out)
    \/ \E out \in LookupOutcomes : GuildReturns(out)
    \/ Resume
    \/ Return
    \/ \E add \in Additions : AddLocale(add[1], add[2])

SpecDetect == Init /\ [][NextDetect]_vars

\* calls with positional parameters and with overrides that are not loaded
NextAlias ==
    \/ InitModule(OptionsWith(NoFunction, TRUE),
                  AliasDirectory.files, AliasDirectory.examples)
    \/ \E k \in AliasKeys, a \in AliasArgLists : Invoke(k, a, InGuild)
    \/ \E out \in FewOutcomes : UserReturns(out)
    \/ \E out \in FewOutcomes : GuildReturns(out)
    \/ Resume
    \/ Return

SpecAlias == Init /\ [][NextAlias]_vars

\* TextInterpolator.parseArguments(list), called directly
CallParseArguments(list) ==
    /\ pc = "new" /\ call = NoCall
    /\ call' = [op |-> "parseArguments", list |-> list, text |-> <<>>,
                params |-> NoParams]
    /\ parsed' = ParseArguments(list)
    /\ result' = None
    /\ UNCHANGED <<locales, cfg, pc, key, args, ctx, userLang, guildLang,
                   detected, locale, trace, replay>>

\* TextInterpolator.interpolate(text, params), called directly
CallInterpolate(text, p) ==
    /\ pc = "new" /\ call = NoCall
    /\ call' = [op |-> "interpolate", list |-> <<>>, text |-> text, params |-> p]
    /\ result' = InterpolateValue(text, p)
    /\ parsed' = NotParsed
    /\ UNCHANGED <<locales, cfg, pc, key, args, ctx, userLang, guildLang,
                   detected, locale, trace, replay>>

\* the static functions of TextInterpolator, on every input of the pools
NextText ==
    \/ \E list \in ParseLists : CallParseArguments(list)
    \/ \E text \in Templates, p \in ParamValues : CallInterpolate(text, p)

SpecText == Init /\ [][NextText]_vars

--------------------------------------------------------------------------
(* Observations used by the properties *)

Done == pc = "done" /\ result # Error
KeyGiven == key # None /\ Trim(key) # <<>>
StoredCodes == Range(Keys(locales))
Reads == LET gets == SelectSeq(trace, LAMBDA e : e.ev = "get") IN
         [i \in 1..Len(gets) |-> gets[i].lang]
Dispatches == LET evs == SelectSeq(trace, LAMBDA e : e.ev # "get" /\ e.ev # "parse") IN
              [i \in 1..Len(evs) |-> evs[i].ev]
Loaded(lang) == IsString(lang) /\ lang # <<>> /\ lang \in StoredCodes

--------------------------------------------------------------------------
(* C1: a key that is no string leaf of any loaded language comes back as   *)
(* the result, unchanged and uninterpolated, and no error is signalled     *)
(* (the claim as written: the key as it was given)                         *)
C1_KeyReturnedAsGiven ==
    (/\ pc = "done"
     /\ KeyGiven
     /\ \A c \in StoredCodes : GetFromLocale(locales, key, c) = None)
    => result = key

(* C1, amended: when the trimmed key is no string leaf of any loaded       *)
(* language, the result is the trimmed key, uninterpolated, and no error   *)
C1_TrimmedKeyReturned ==
    (/\ pc = "done"
     /\ KeyGiven
     /\ \A c \in StoredCodes : GetFromLocale(locales, Trim(key), c) = None)
    => result = Trim(key)

C1_Witness ==
    /\ pc = "done"
    /\ key = <<"{","u","}">>
    /\ HasKey(parsed.params, <<"u">>)
    /\ Len(locales) = 2
    /\ result = key

(* C2: a key that is a string leaf of the resolved language, called with   *)
(* no argument, yields that leaf's text, the empty text included           *)
C2_LeafTextReturned ==
    (/\ Done
     /\ args = <<>>
     /\ Loaded(locale)
     /\ IsString(GetFromLocale(locales, key, locale)))
    => result = GetFromLocale(locales, key, locale)

(* C3: the language of the lookup is the override when an argument set it, *)
(* else the detected language when there is one, else the first available  *)
(* (the claim as written)                                                  *)
C3_OverrideAlwaysUsed ==
    Done =>
      /\ locale = IF parsed.forceLocale THEN parsed.locale
                  ELSE IF detected # None THEN detected
                  ELSE GetFirstAvailableLocale(locales)
      /\ Reads[1] = locale

(* C3, amended: the override when an argument set it and it is not empty,  *)
(* else, when no argument set it, the detected language when there is one, *)
(* else (an empty override included) the first available language          *)
C3_LanguagePriority ==
    Done =>
      /\ locale = IF parsed.forceLocale /\ parsed.locale # <<>> THEN parsed.locale
                  ELSE IF ~parsed.forceLocale /\ detected # None THEN detected
                  ELSE GetFirstAvailableLocale(locales)
      /\ Reads[1] = locale

C3_Witness ==
    /\ Done
    /\ ~parsed.forceLocale
    /\ detected = Tr
    /\ Len(locales) = 2 /\ locales[1][1] = En
    /\ locale = Tr

(* C4: a key not found in the language is looked up once more, in the      *)
(* first available language and only when that is another one; the text    *)
(* found there is returned interpolated, else the key; no third language   *)
(* is read                                                                 *)
C4_RetryOnceInFirst ==
    Done =>
      LET k == Trim(key)
          first == GetFirstAvailableLocale(locales)
          retried == Len(Reads) = 2
      IN /\ Len(Reads) \in {1, 2}
         /\ Reads[1] = locale
         /\ retried => Reads[2] = first /\ first # locale
         /\ GetFromLocale(locales, k, locale) = None =>
              /\ retried <=> (first # None /\ first # locale)
              /\ result = IF retried /\ IsString(GetFromLocale(locales, k, first))
                          THEN Interpolate(GetFromLocale(locales, k, first),
                                           parsed.params)
                          ELSE k

(* C8: a missing, empty or blank key is signalled as an error and nothing  *)
(* else happens: no parse, no hook, no lookup, no catalog read, no text    *)
C8_MissingKeyIsError ==
    (pc = "done" /\ (key = None \/ Trim(key) = <<>>))
    => /\ result = Error
       /\ trace = <<>>
       /\ parsed = NotParsed
       /\ locale = None
       /\ userLang = NotAsked /\ guildLang = NotAsked

C8_Witness ==
    pc = "done" /\ key = <<" ">> /\ result = Error /\ Len(locales) = 2

--------------------------------------------------------------------------
(* Steps of a call, told apart by what they change *)

\* the call starts (Invoke or Reinvoke)
Begins == pc \in {"idle", "done"} /\ pc' # "idle"
\* detectUserLanguage returns in this step
Detects == pc' = "detected" /\ (pc # "detected" \/ Begins)
DispatchesUser == Len(SelectSeq(trace', LAMBDA e : e.ev = "user"))
                    > (IF Begins THEN 0
                       ELSE Len(SelectSeq(trace, LAMBDA e : e.ev = "user")))
DispatchesGuild == Len(SelectSeq(trace', LAMBDA e : e.ev = "guild"))
                    > (IF Begins THEN 0
                       ELSE Len(SelectSeq(trace, LAMBDA e : e.ev = "guild")))
HookReturned == cfg.customLanguageFunction \notin {NoFunction, Threw}

(* C5: what detectUserLanguage returns, if not none, is a code of the      *)
(* store when it is validated; a hook result that is not in the store is   *)
(* not returned and the user-source lookup is dispatched next              *)
C5_DetectedIsLoaded ==
    [][ /\ (Detects /\ detected' # None) => detected' \in StoredCodes
        /\ (/\ Begins /\ KeyGiven' /\ ~parsed'.forceLocale
            /\ HookReturned /\ cfg.customLanguageFunction \notin StoredCodes)
           => /\ pc' = "awaitUser"
              /\ detected' = None
              /\ trace' = <<Event("parse", None), Event("hook", None),
                            Event("user", None)>> ]_vars

C5_Witness ==
    /\ pc = "detected"
    /\ cfg.customLanguageFunction = <<"x","x">>
    /\ Dispatches = <<"hook", "user">>
    /\ userLang = Tr
    /\ detected = Tr

(* C6: the stages run in the order hook, user source, guild source; the    *)
(* first that yields a code of the store ends the detection with that      *)
(* code, and no later lookup is dispatched; at most one user and one guild *)
(* lookup per call, the guild lookup only after the user lookup returned   *)
C6_StagesInOrder ==
    /\ [](/\ Dispatches \in { <<>>, <<"hook">>, <<"user">>, <<"hook", "user">>,
                              <<"user", "guild">>, <<"hook", "user", "guild">> }
          /\ ("guild" \in Range(Dispatches) => userLang # NotAsked)
          /\ ("hook" \in Range(Dispatches) <=>
                (/\ cfg.customLanguageFunction # NoFunction
                 /\ trace # <<>> /\ ~parsed.forceLocale)))
    /\ [][ /\ DispatchesUser =>
                ~(HookReturned /\ cfg.customLanguageFunction \in StoredCodes)
           /\ DispatchesGuild => (pc = "awaitUser" /\ ~Loaded(userLang'))
           /\ (Detects /\ Begins) =>
                detected' = IF HookReturned THEN cfg.customLanguageFunction
                            ELSE None
           /\ (Detects /\ pc = "awaitUser") =>
                detected' = IF Loaded(userLang') THEN userLang' ELSE None
           /\ (Detects /\ pc = "awaitGuild") =>
                detected' = IF Loaded(guildLang') THEN guildLang' ELSE None ]_vars

C6_Witness ==
    /\ pc = "detected"
    /\ Dispatches = <<"hook", "user", "guild">>
    /\ userLang = <<"x","x">>
    /\ guildLang = En
    /\ detected = En

\* the answers with which a lookup fails: the interpreter throws and the
\* tables throw or hold nothing, or the interpreter returns nothing usable
FailedOutcomes ==
    { Answer("code", <<>>, "value", Tr),
      Answer("code", NullText, "absent", <<>>),
      Answer("echo", <<>>, "value", En),
      Answer("throws", <<>>, "throws", <<>>),
      Answer("throws", <<>>, "absent", <<>>),
      Answer("throws", <<>>, "empty", <<>>),
      Answer("nonstring", <<>>, "absent", <<>>),
      Answer("code", <<"{","x","}">>, "absent", <<>>) }

(* C7: a lookup that fails yields none and nothing is thrown; after a      *)
(* failed user lookup the guild lookup is dispatched when the guild        *)
(* fallback is on, and when the last lookup fails the detection is none    *)
C7_FailedLookupIsNone ==
    [][ \A out \in FailedOutcomes :
          /\ UserReturns(out) =>
               /\ userLang' = None
               /\ IF cfg.fallbackToGuildLanguage
                  THEN pc' = "awaitGuild" /\ DispatchesGuild
                  ELSE pc' = "detected" /\ detected' = None
          /\ GuildReturns(out) =>
               /\ guildLang' = None
               /\ pc' = "detected" /\ detected' = None ]_vars

C7_Witness ==
    /\ pc = "done"
    /\ Dispatches = <<"user", "guild">>
    /\ userLang = None
    /\ guildLang = None
    /\ detected = None
    /\ locale = En
    /\ Len(locales) = 2

--------------------------------------------------------------------------
(* Paths of a catalog tree *)

\* the paths, as sequences of property names, from n to its string leaves
RECURSIVE LeafPaths(_)
LeafPaths(n) ==
    IF n.kind = "string" THEN { <<>> }
    ELSE IF n.kind = "object"
         THEN UNION { { <<n.fields[i][1]>> \o p : p \in LeafPaths(n.fields[i][2]) } :
                      i \in 1..Len(n.fields) }
         ELSE {}

\* the text of the leaf a path of n ends at
RECURSIVE LeafAt(_, _)
LeafAt(n, path) ==
    IF path = <<>> THEN n.val
    ELSE LeafAt(Get(n.fields, Head(path)), Tail(path))

\* the segments of a path joined by '.'
RECURSIVE Join(_)
Join(path) ==
    IF path = <<>> THEN <<>>
    ELSE IF Len(path) = 1 THEN path[1]
         ELSE path[1] \o <<".">> \o Join(Tail(path))

\* the paths a dotted key can name: a segment or more, none holding a '.'
PlainPaths(n) ==
    { p \in LeafPaths(n) : p # <<>> /\ \A i \in 1..Len(p) : ~Includes(p[i], ".") }

(* C9 as stated: after addLocale(code, tree) the store has code, and the   *)
(* joined segments of every path of tree to a string leaf read that leaf's *)
(* text in language code                                                    *)
C9_EveryPathRoundTrips ==
    [][ \A add \in Additions :
          AddLocale(add[1], add[2]) =>
            /\ HasLocale(locales', add[1])
            /\ \A p \in LeafPaths(add[2]) :
                 GetFromLocale(locales', Join(p), add[1]) = LeafAt(add[2], p) ]_vars

(* C9 amended: after addLocale(code, tree) the store has code, and the     *)
(* joined segments of every path of tree to a string leaf that has one     *)
(* segment or more, none of them holding a '.', read that leaf's text in   *)
(* language code, whether or not code was in the store before              *)
C9_PlainPathRoundTrips ==
    [][ \A add \in Additions :
          AddLocale(add[1], add[2]) =>
            /\ HasLocale(locales', add[1])
            /\ \A p \in PlainPaths(add[2]) :
                 GetFromLocale(locales', Join(p), add[1]) = LeafAt(add[2], p) ]_vars

C9_Witness ==
    /\ pc = "idle"
    /\ locales = << <<En, TreeC>>, <<Tr, TreeA>> >>
    /\ GetFromLocale(locales, <<"n",".","b">>, Tr) = <<"x">>
    /\ GetFromLocale(locales, <<"e">>, Tr) = <<>>
    /\ GetFromLocale(locales, <<"n">>, En) = <<"N">>

(* C10: a call made again with the same key, arguments and context, with   *)
(* no addLocale since the first began and the same answers of the lookups, *)
(* returns the same result after the same lookups; a step of a call leaves *)
(* the store unchanged                                                      *)
C10_SameCallSameText ==
    /\ []((pc = "done" /\ replay.on /\ replay.clean)
            => /\ result = replay.result
               /\ userLang = replay.userLang
               /\ guildLang = replay.guildLang)
    /\ [][(Begins \/ pc' # pc) /\ pc # "new" => locales' = locales]_vars

C10_Witness ==
    /\ pc = "done"
    /\ replay.on /\ replay.clean
    /\ parsed.params = << <<<<"0">>, <<"B">>>>, <<<<"1">>, <<"B">>>> >>
    /\ userLang = None
    /\ guildLang = En
    /\ result = replay.result
    /\ result = <<"H","{","u","}","B">>

--------------------------------------------------------------------------
(* The order of the store *)

\* init() has run in this step
Loads == pc = "new" /\ pc' = "idle"
\* the codes of the files of a directory that JSON.parse accepts, in order
ParsedCodes(files) ==
    LET ok == SelectSeq(files, LAMBDA f : f[2] # Malformed) IN
    [i \in 1..Len(ok) |-> ok[i][1]]

(* C11: getFirstAvailableLocale is the code inserted first, none for an    *)
(* empty store, and the first of getAvailableLocales; getAvailableLocales  *)
(* lists every stored code once, in the order of insertion: a load lists   *)
(* its files in order, addLocale of a new code appends it, and no step     *)
(* changes the place of a code that is listed                              *)
C11_InsertionOrder ==
    /\ [](LET codes == GetAvailableLocales(locales) IN
          /\ GetFirstAvailableLocale(locales)
               = IF locales = <<>> THEN None ELSE locales[1][1]
          /\ codes # <<>> => GetFirstAvailableLocale(locales) = codes[1]
          /\ Len(codes) = Len(locales)
          /\ \A i \in 1..Len(codes) : codes[i] = locales[i][1]
          /\ \A i, j \in 1..Len(codes) : codes[i] = codes[j] => i = j)
    /\ [][ /\ Loads =>
                \E dir \in Directories :
                   ParsedCodes(dir.files) # <<>> =>
                      GetAvailableLocales(locales') = ParsedCodes(dir.files)
           /\ \A add \in Additions :
                AddLocale(add[1], add[2]) =>
                   GetAvailableLocales(locales')
                     = IF add[1] \in Range(GetAvailableLocales(locales))
                       THEN GetAvailableLocales(locales)
                       ELSE Append(GetAvailableLocales(locales), add[1])
           /\ locales # <<>> =>
                GetFirstAvailableLocale(locales') = GetFirstAvailableLocale(locales)
         ]_vars

C11_Witness ==
    /\ pc = "idle"
    /\ GetAvailableLocales(locales) = <<Tr, En>>
    /\ GetFirstAvailableLocale(locales) = Tr
    /\ Get(locales, Tr) = TreeA

(* C12 as stated: addLocale of a code that is in the store makes it the    *)
(* last of getAvailableLocales, and when it was the first available and    *)
(* another language is stored, the first available language changes        *)
C12_UpsertAppends ==
    [][ \A add \in Additions :
          (AddLocale(add[1], add[2]) /\ HasLocale(locales, add[1])) =>
             /\ GetLastAvailableLocale(locales') = add[1]
             /\ (GetFirstAvailableLocale(locales) = add[1] /\ Len(locales) > 1)
                  => GetFirstAvailableLocale(locales') # add[1] ]_vars

(* C12 amended: addLocale of a code that is in the store keeps its place:  *)
(* getAvailableLocales is the same list after the call as before it, the   *)
(* first available language is the same, and only the tree of the code is  *)
(* replaced                                                                *)
C12_UpsertKeepsPlace ==
    [][ \A add \in Additions :
          (AddLocale(add[1], add[2]) /\ HasLocale(locales, add[1])) =>
             /\ GetAvailableLocales(locales') = GetAvailableLocales(locales)
             /\ GetFirstAvailableLocale(locales') = GetFirstAvailableLocale(locales)
             /\ Get(locales', add[1]) = add[2]
             /\ \A c \in Range(GetAvailableLocales(locales)) \ {add[1]} :
                  Get(locales', c) = Get(locales, c) ]_vars

C12_Witness ==
    /\ pc = "idle"
    /\ locales = << <<En, TreeC>>, <<Tr, TreeB>> >>

--------------------------------------------------------------------------
(* parseArguments, called directly: the rules as the specification states  *)
(* them, on the argument list of the call                                  *)

Parsing == call.op = "parseArguments"
ParseFresh == [locale |-> None, params |-> <<>>, forceLocale |-> FALSE]
Blank(arg) == Trim(arg) = <<>>
Letters(s) == \A i \in 1..Len(s) : s[i] \in LowerLetters \cup UpperLetters

\* the rule of an argument: the first that matches
ArgClass(arg) ==
    LET t == Trim(arg) IN
    IF arg = <<>> THEN "skipped"
    ELSE IF ":" \in Range(t) THEN "named"
    ELSE IF "|" \in Range(t) THEN "optional"
    ELSE IF Len(t) \in {2, 3} /\ Letters(t) THEN "language"
    ELSE "positional"

\* an argument cut at the first c: what is before it and all that is after it
Before(t, c) == SubSeq(t, 1, IndexOf(t, c) - 1)
After(t, c) == SubSeq(t, IndexOf(t, c) + 1, Len(t))
NamedKey(arg) == Trim(Before(Trim(arg), ":"))
NamedValue(arg) == Trim(After(Trim(arg), ":"))

OverrideArgs(list) ==
    { i \in 1..Len(list) : ArgClass(list[i]) \in {"optional", "language"} }
StoredArgs(list) ==
    { i \in 1..Len(list) : ArgClass(list[i]) \in {"named", "positional"} }
LastOf(set) == CHOOSE i \in set : \A j \in set : j <= i

(* C13: each non-empty argument takes the first rule that matches, ':'     *)
(* before '|' before the 2-3 letter code before positional: the override   *)
(* is set exactly when an argument is of the '|' or the code rule, a code  *)
(* argument that is the last of them is the override, only arguments of    *)
(* the ':' and positional rules are stored, and ["user:Alice", "en"]       *)
(* yields params {user: "Alice"}, locale "en", forceLocale true            *)
C13_FirstRuleWins ==
    Parsing =>
      LET list == call.list
          ov == OverrideArgs(list)
          st == StoredArgs(list)
      IN /\ parsed.forceLocale <=> ov # {}
         /\ ov = {} => parsed.locale = None
         /\ (ov # {} /\ ArgClass(list[LastOf(ov)]) = "language")
              => parsed.locale = Trim(list[LastOf(ov)])
         /\ Len(parsed.params) <= Cardinality(st)
         /\ list = <<<<"u","s","e","r",":","A","l","i","c","e">>, <<"e","n">>>>
              => parsed = [locale |-> <<"e","n">>,
                           params |-> << <<<<"u","s","e","r">>,
                                           <<"A","l","i","c","e">>>> >>,
                           forceLocale |-> TRUE]

C13_Witness ==
    /\ Parsing
    /\ call.list = <<<<"a",":","b","|","c">>, <<"E","N">>>>
    /\ parsed.locale = <<"E","N">>
    /\ parsed.params = << <<<<"a">>, <<"b","|","c">>>> >>

(* C14: an argument with no ':' and a '|' is cut at the first '|'; the     *)
(* override is the part before it, one '?' removed and trimmed, when that  *)
(* is not empty, else the trimmed part after it; forceLocale is true       *)
C14_OptionalWithDefault ==
    (Parsing /\ OverrideArgs(call.list) # {}) =>
      LET arg == call.list[LastOf(OverrideArgs(call.list))]
          langPart == Trim(RemoveFirst(Before(Trim(arg), "|"), "?"))
          defaultPart == Trim(After(Trim(arg), "|"))
      IN ArgClass(arg) = "optional" =>
           /\ parsed.forceLocale
           /\ parsed.locale = IF langPart # <<>> THEN langPart ELSE defaultPart

(* C15: an argument with a ':' is cut at the first ':' only: the key is    *)
(* what is before it and the value all that is after it, further ':'       *)
(* included, both trimmed, the value in its own case                       *)
C15_ValueKeepsColons ==
    Parsing =>
      \A i \in 1..Len(call.list) :
        LET arg == call.list[i] IN
        (/\ ArgClass(arg) = "named"
         /\ NamedKey(arg) # <<>> /\ NamedValue(arg) # <<>>
         /\ \A j \in (i + 1)..Len(call.list) :
              /\ ArgClass(call.list[j]) # "positional"
              /\ ArgClass(call.list[j]) = "named"
                   => NamedKey(call.list[j]) # NamedKey(arg))
        => /\ HasKey(parsed.params, NamedKey(arg))
           /\ Get(parsed.params, NamedKey(arg)) = NamedValue(arg)

(* C16: no named parameter is stored with an empty key or an empty value   *)
C16_NoEmptyNamed ==
    (Parsing /\ \A i \in 1..Len(call.list) :
                   ArgClass(call.list[i]) # "positional") =>
      \A e \in Range(parsed.params) : e[1] # <<>> /\ e[2] # <<>>

(* C17: empty and blank arguments are skipped: the result is that of the   *)
(* list without them, and the empty list yields no params, no override     *)
C17_BlankSkipped ==
    Parsing =>
      /\ parsed = ParseArguments(SelectSeq(call.list, LAMBDA a : ~Blank(a)))
      /\ call.list = <<>> => parsed = ParseFresh

\* the named parameters that the arguments of a list have stored
NamedStored(list) ==
    Cardinality({ NamedKey(list[i]) : i \in
        { j \in 1..Len(list) : /\ ArgClass(list[j]) = "named"
                               /\ NamedKey(list[j]) # <<>>
                               /\ NamedValue(list[j]) # <<>> } })

PositionalLast ==
    /\ Parsing /\ call.list # <<>>
    /\ ArgClass(call.list[Len(call.list)]) = "positional"
    /\ ~Blank(call.list[Len(call.list)])
Front(list) == SubSeq(list, 1, Len(list) - 1)

(* C18 as stated: a positional argument is stored under the number of      *)
(* named parameters stored before it in the parse                          *)
C18_IndexIsNamedCount ==
    PositionalLast =>
      parsed.params = ObjSet(ParseArguments(Front(call.list)).params,
                             NatToString(NamedStored(Front(call.list))),
                             Trim(call.list[Len(call.list)]))

(* C18 amended: a positional argument is stored under the number of        *)
(* entries, named and positional, that params holds when it is reached     *)
C18_IndexIsEntryCount ==
    PositionalLast =>
      LET before == ParseArguments(Front(call.list)).params IN
      /\ parsed.params = ObjSet(before, NatToString(Len(before)),
                                Trim(call.list[Len(call.list)]))
      /\ parsed.locale = ParseArguments(Front(call.list)).locale
      /\ parsed.forceLocale = ParseArguments(Front(call.list)).forceLocale

C18_Witness ==
    /\ Parsing
    /\ call.list = <<<<"B">>, <<"a","b","c","d">>>>
    /\ parsed.params = << <<<<"0">>, <<"B">>>>, <<<<"1">>, <<"a","b","c","d">>>> >>

--------------------------------------------------------------------------
(* interpolate, called directly *)

Interpolating == call.op = "interpolate"
\* the tokens {identifier} of a text and the characters between them
Tokens(text) == Scan(text, 1, WordChars)
SameName(a, b) == ToLowerCase(a) = ToLowerCase(b)

\* named mode: the value of the key that is the token's name but for case
NamedValueFor(params, part) ==
    LET hits == { i \in 1..Len(params) : SameName(params[i][1], part.name) } IN
    IF hits = {} THEN part.match
    ELSE IF \E i \in hits : params[i][1] = ToLowerCase(part.name)
         THEN Get(params, ToLowerCase(part.name))
         ELSE params[CHOOSE i \in hits : \A j \in hits : i <= j][2]

\* the text with every token replaced by the value of its key
SubstitutedNamed(text, params) ==
    LET parts == Tokens(text) IN
    Concat([i \in 1..Len(parts) |->
              IF parts[i].token THEN NamedValueFor(params, parts[i])
              ELSE parts[i].match])

(* C19: in named mode every token whose name is a key of params but for    *)
(* case is replaced by that key's value, every other token and all other   *)
(* text is left as it is, and no error is raised; with no params the text  *)
(* comes back unchanged                                                    *)
C19_NamedMode ==
    Interpolating =>
      /\ call.params.kind = "object" =>
           /\ result # Threw
           /\ result = SubstitutedNamed(call.text, call.params.object)
      /\ call.params.kind = "none" => result = call.text

\* positional mode: the element a numeric or an alias token stands for
IsNumber(name) == \A i \in 1..Len(name) : name[i] \in Digits
IsAlias(name) == HasKey(NamedMappings, ToLowerCase(name))
PositionalValueFor(params, part) ==
    LET index == IF IsNumber(part.name) THEN StringToNat(part.name)
                 ELSE Get(NamedMappings, ToLowerCase(part.name))
    IN IF index < Len(params) THEN params[index + 1] ELSE part.match

\* the text with every token replaced by the element it stands for
SubstitutedPositional(text, params) ==
    LET parts == Tokens(text) IN
    Concat([i \in 1..Len(parts) |->
              IF parts[i].token THEN PositionalValueFor(params, parts[i])
              ELSE parts[i].match])

(* C20: in positional mode a numeric token {n} is replaced by params[n]    *)
(* and a token whose lower-cased name is in the alias table by the         *)
(* parameter at the alias's index; a token whose index is out of range is  *)
(* left as it is                                                           *)
C20_PositionalMode ==
    (/\ Interpolating
     /\ call.params.kind = "array" /\ call.params.array # <<>>
     /\ \A i \in 1..Len(Tokens(call.text)) :
          Tokens(call.text)[i].token =>
             IsNumber(Tokens(call.text)[i].name) \/ IsAlias(Tokens(call.text)[i].name))
    => result = SubstitutedPositional(call.text, call.params.array)

--------------------------------------------------------------------------
(* $locale with positional parameters only *)

PositionalOnly ==
    /\ Done /\ KeyGiven /\ args # <<>>
    /\ \A i \in 1..Len(args) : ArgClass(args[i]) = "positional"
    /\ Truthy(GetTextRaw(locales, Trim(key), locale))
PositionalValues == [i \in 1..Len(args) |-> Trim(args[i])]

--------------------------------------------------------------------------
(* interpolate: one pass over the text *)

\* positional mode: what a token of the text itself is replaced by
OnceReplacement(params, part) ==
    IF IsNumber(part.name) /\ StringToNat(part.name) < Len(params)
    THEN params[StringToNat(part.name) + 1]
    ELSE AliasReplacement(params, part.name, part.match)

\* the text with every token of the text replaced once
SubstitutedOnce(text, params) ==
    LET parts == Tokens(text) IN
    Concat([i \in 1..Len(parts) |->
              IF parts[i].token THEN OnceReplacement(params, parts[i])
              ELSE parts[i].match])

(* C22: interpolation is not recursive in either mode: the tokens of the   *)
(* text are replaced once and a substituted value that itself looks like a *)
(* token is not scanned again, so the output holds the value as supplied   *)
C22_NotRecursive ==
    Interpolating =>
      /\ (call.params.kind = "array" /\ call.params.array # <<>>)
           => result = SubstitutedOnce(call.text, call.params.array)
      /\ (call.params.kind = "object" /\ result # Threw)
           => result = SubstitutedNamed(call.text, call.params.object)

--------------------------------------------------------------------------
(* getFromLocale *)

\* the string leaf at the end of the dotted path k of a loaded catalog
FoundAt(store, k, code) ==
    IF HasKey(store, code) /\ Split(k, ".") \in LeafPaths(Get(store, code))
    THEN LeafAt(Get(store, code), Split(k, "."))
    ELSE None

(* C23: getFromLocale returns a value only when every '.'-separated        *)
(* segment of the key exists along the walk and the final value is a       *)
(* string; it reports not-found when the language is not loaded, a segment *)
(* is absent, the walk passes through a string leaf or the final value is  *)
(* a nested mapping                                                        *)
C23_GetFromLocale ==
    (Done /\ KeyGiven) =>
       \A i \in 1..Len(Reads) :
          GetFromLocale(locales, Trim(key), Reads[i])
             = FoundAt(locales, Trim(key), Reads[i])

\* the walk of "n.b" passes through the string leaf n
C23_ThroughLeaf ==
    /\ Done /\ key = <<"n",".","b">>
    /\ Reads = <<Tr>> /\ HasKey(locales, Tr) /\ Get(locales, Tr) = TreeC
    /\ result = key

--------------------------------------------------------------------------
(* the guild stage of the detection *)

(* C24: the guild stage runs only when fallbackToGuildLanguage is enabled  *)
(* and the stages before it yielded no loaded code; when it is disabled no *)
(* guild lookup is ever dispatched and the detection ends with the hook's  *)
(* or the user's code or none; when it is enabled and the user lookup      *)
(* returns no loaded code the guild lookup is dispatched, and a guild      *)
(* preference that is a loaded code is what the detection returns          *)
C24_GuildFallback ==
    /\ [](~cfg.fallbackToGuildLanguage =>
            /\ pc # "awaitGuild" /\ guildLang = NotAsked
            /\ "guild" \notin Range(Dispatches)
            /\ pc \in {"detected", "done"} =>
                  detected \in {None, cfg.customLanguageFunction, userLang})
    /\ [][ /\ Begins => pc' # "awaitGuild"
           /\ (pc = "awaitUser" /\ pc' # "awaitUser") =>
                (pc' = "awaitGuild" <=>
                   (/\ cfg.fallbackToGuildLanguage
                    /\ ~(Truthy(userLang') /\ userLang' \in StoredCodes)))
           /\ (pc = "awaitGuild" /\ pc' = "detected"
                 /\ Truthy(guildLang') /\ guildLang' \in StoredCodes)
                => detected' = guildLang' ]_vars

C24_GuildReturned ==
    /\ pc = "detected" /\ cfg.fallbackToGuildLanguage
    /\ cfg.customLanguageFunction = <<"x","x">>
    /\ Dispatches = <<"hook", "user", "guild">>
    /\ userLang = None
    /\ guildLang = Tr /\ Tr \in StoredCodes
    /\ detected = Tr

--------------------------------------------------------------------------
(* a call with a locale override *)

(* C25: when parseArguments reports forceLocale the detection is bypassed: *)
(* the call ends without a step of detectUserLanguage, the hook is not     *)
(* invoked and no user or guild lookup is dispatched                       *)
C25_ForcedBypasses ==
    /\ [](parsed.forceLocale =>
            /\ pc = "done"
            /\ Dispatches = <<>>
            /\ userLang = NotAsked /\ guildLang = NotAsked
            /\ detected = None)
    /\ [][(Begins /\ parsed'.forceLocale) => pc' = "done"]_vars

C25_HookNotInvoked ==
    /\ pc = "done" /\ parsed.forceLocale
    /\ args = <<Tr>>
    /\ cfg.customLanguageFunction = Threw
    /\ Dispatches = <<>>
    /\ locale = Tr

--------------------------------------------------------------------------
(* an override that names no loaded language *)

UnloadedOverride ==
    /\ Done /\ KeyGiven
    /\ parsed.forceLocale /\ Truthy(parsed.locale)
    /\ parsed.locale \notin StoredCodes
    /\ locales # <<>>

(* C26: when the override names a language that is not loaded (an unknown  *)
(* code, or "EN" when only "en" is loaded) the call returns the key's text *)
(* from the first available language, or the key when the key is absent    *)
(* there, and the detection is not consulted                               *)
C26_UnloadedOverride ==
    UnloadedOverride =>
       LET first == Keys(locales)[1]
           leaf == FoundAt(locales, Trim(key), first)
       IN /\ Reads = <<parsed.locale, first>>
          /\ result = IF leaf # None THEN SubstitutedNamed(leaf, parsed.params)
                      ELSE Trim(key)
          /\ Dispatches = <<>> /\ detected = None

--------------------------------------------------------------------------
(* loadLocales on a directory without a usable catalog *)

\* the files of a directory that parse, in the order they are read
Usable(files) == SelectSeq(files, LAMBDA f : f[2] # Malformed)

(* C27: after loadLocales on a directory that yields no usable catalog     *)
(* (missing, without .json files, or with malformed files only) defaults   *)
(* are synthesized: the store holds an English and a Turkish catalog and   *)
(* there is a first available language; when at least one file loads the  *)
(* store holds exactly the files that parse, a malformed one being skipped *)
C27_DefaultsWhenEmpty ==
    [][ (pc = "new" /\ pc' = "idle") =>
           \E dir \in Directories :
              IF Usable(dir.files) = <<>>
              THEN /\ HasKey(locales', En) /\ HasKey(locales', Tr)
                   /\ Keys(locales') # <<>>
              ELSE locales' = Usable(dir.files) ]_vars

--------------------------------------------------------------------------
(* addLocale while a call waits for its lookups *)

\* the catalogs that are ever handed to the store as a whole
InstalledTrees ==
    UNION { { dir.files[i][2] : i \in 1..Len(dir.files) } : dir \in Directories }
    \cup UNION { { dir.examples[i][2] : i \in 1..Len(dir.examples) } :
                 dir \in Directories }
    \cup { add[2] : add \in Additions } \cup { BasicEn, BasicTr }

\* the step in which a call reads the store
ReadsStore == pc # "done" /\ pc' = "done" /\ result' # Error

(* C28: with addLocale interleaved at the suspension points of a call, a   *)
(* reader never sees a torn catalog: each entry of the store is a tree     *)
(* that was installed as a whole, addLocale replaces the entry of its code *)
(* and leaves every other entry alone, no step removes a language, a call  *)
(* reads the store in one step in which the store does not change and its  *)
(* text is the leaf of the tree stored at that moment, and a detected      *)
(* language is still in the store when the lookup is made                  *)
C28_NoTornCatalog ==
    /\ [](/\ \A i \in 1..Len(locales) : locales[i][2] \in InstalledTrees
          /\ (pc = "detected" /\ detected # None) => detected \in StoredCodes)
    /\ [][ /\ StoredCodes \subseteq Range(Keys(locales'))
           /\ (pc # "new" /\ locales' # locales) =>
                \E add \in Additions :
                   /\ HasKey(locales', add[1])
                   /\ Get(locales', add[1]) = add[2]
                   /\ \A c \in StoredCodes \ {add[1]} :
                         Get(locales', c) = Get(locales, c)
           /\ ReadsStore =>
                /\ locales' = locales
                /\ Truthy(FoundAt(locales, Trim(key'), locale')) =>
                      result' = SubstitutedNamed(
                                   FoundAt(locales, Trim(key'), locale'),
                                   parsed'.params)
           /\ (ReadsStore /\ pc = "detected" /\ detected # None) =>
                locale' = detected ]_vars

C28_ReadsNewTree ==
    /\ Done /\ ~replay.on /\ ~replay.clean
    /\ detected = Tr /\ locale = Tr
    /\ Get(locales, Tr) = TreeA
    /\ key = <<"a">> /\ args = <<>>
    /\ result = <<"H","{","u","}","{","1","}">>

--------------------------------------------------------------------------
(* a hook that throws *)

HookThrew ==
    /\ cfg.customLanguageFunction = Threw
    /\ KeyGiven /\ ~parsed.forceLocale
    /\ pc \notin {"new", "idle"}

(* C29: when the custom language hook throws, detectUserLanguage returns   *)
(* none without passing the error on and without dispatching the user or   *)
(* the guild lookup, and the call takes the first available language,      *)
(* whatever the user's stored preference is                                *)
C29_HookThrows ==
    HookThrew =>
       /\ pc \in {"detected", "done"}
       /\ Dispatches = <<"hook">>
       /\ userLang = NotAsked /\ guildLang = NotAsked
       /\ detected = None
       /\ result \notin {Error, Threw}
       /\ pc = "done" =>
             /\ locale = (IF locales = <<>> THEN None ELSE Keys(locales)[1])
             /\ Reads = <<locale>>

C29_FirstAvailableUsed ==
    /\ HookThrew /\ pc = "done"
    /\ Keys(locales) = <<En, Tr>>
    /\ ctx = InGuild
    /\ locale = En
    /\ Get(locales, En) = TreeA
    /\ result = <<"H","{","u","}","{","1","}">>

--------------------------------------------------------------------------
(* parseArguments: the entries it stores *)

PositionalArgs(list) ==
    { i \in 1..Len(list) : ArgClass(list[i]) = "positional" }

(* C30: parseArguments never overwrites an entry: every positional         *)
(* argument is kept under an index key, and the number of entries is the   *)
(* number of positional arguments plus the number of distinct named keys,  *)
(* a numeric named key included                                            *)
C30_NoOverwrite ==
    Parsing =>
      /\ Len(parsed.params)
           = Cardinality(PositionalArgs(call.list)) + NamedStored(call.list)
      /\ \A i \in PositionalArgs(call.list) :
            \E j \in 1..Len(parsed.params) :
               /\ IsIndexKey(parsed.params[j][1])
               /\ parsed.params[j][2] = Trim(call.list[i])

====
